---- MODULE Spec2Model ----
(***************************************************************************)
(* MNF_cmd.py: batch Minimum Noise Fraction transform of the rasters of    *)
(* the working directory.  The script body (argument record, directory     *)
(* listing, mode dispatch, the three per-file loops, saveMNF) is modelled  *)
(* statement by statement; the numerical library calls are modelled by     *)
(* the shape and provenance of the arrays they return.                     *)
(*                                                                         *)
(* Strings are sequences of one-character strings so that slicing and      *)
(* concatenation are computed.  Arrays are records                         *)
(*   [shape |-> <<d0, d1, d2>>, data |-> [index triple |-> value]]         *)
(* with 0-based indices, as in numpy.                                      *)
(***************************************************************************)
EXTENDS Integers, Sequences, FiniteSets, TLC

VARIABLES
    args,          \* vars(parser.parse_args())
    n_components,  \* module global n_components
    imageList,     \* module global imageList
    i,             \* loop index of the running for loop
    name,          \* module global name
    r,             \* module global r: the input dataset handle
    r2,            \* module global r2: the array read from r
    bn,            \* module global bn
    img,           \* module global img: the argument of the transform / decomposition
    mnf,           \* module global mnf
    out,           \* saveMNF local output
    fs,            \* files under MNF/: path |-> [count, bands, state]
    openHandles,   \* input files whose dataset the script opened and has not closed
    log,           \* the I/O and library calls made so far, in order
    pc,            \* position of the script
    arr, im, back, rpc   \* reshape round trip, used by ReshapeSpec only

pvars == <<args, n_components, imageList, i, name, r, r2, bn, img, mnf, out, fs,
           openHandles, log, pc>>
rvars == <<arr, im, back, rpc>>
vars == <<pvars, rvars>>

----------------------------------------------------------------------------
(* Bounds *)
MaxFiles == 2
MaxBands == 3
MaxComponents == 2
MaxMethod == 3
RBands == 2
RRows == 2
RCols == 2

(* Program constants *)
SuffixLen == 4
SGWindow == 15
SGDegree == 2

Min(a, b) == IF a < b THEN a ELSE b
Max(a, b) == IF a > b THEN a ELSE b

----------------------------------------------------------------------------
(* Strings *)
Dot == <<".">>
TIF == <<"t", "i", "f">>
H5 == <<"h", "5">>
Formats == {TIF, H5}
Stems == {<<"a", "b">>, <<"a", "c">>, <<"b">>}
FileNames == {s \o Dot \o e : s \in Stems, e \in Formats}

EndsWith(s, suffix) ==
    /\ Len(s) >= Len(suffix)
    /\ SubSeq(s, Len(s) - Len(suffix) + 1, Len(s)) = suffix

\* s[:-k] of Python
DropLast(s, k) == SubSeq(s, 1, Max(Len(s) - k, 0))

\* glob.glob('*.' + format): the matching names, in an order the file system chooses
Perms(S) ==
    {q \in [1..Cardinality(S) -> S] : \A a, b \in 1..Cardinality(S) : a # b => q[a] # q[b]}
glob(dir, format) ==
    Perms({f \in dir : Len(f) > Len(format) + 1 /\ EndsWith(f, Dot \o format)})

----------------------------------------------------------------------------
(* Arrays *)
Indices(sh) == {<<a, b, c>> : a \in 0..(sh[1] - 1), b \in 0..(sh[2] - 1), c \in 0..(sh[3] - 1)}
NoArr == [shape |-> <<0, 0, 0>>, data |-> [ix \in {} |-> 0]]

\* numpy transpose(a, axes): result.shape[n] = a.shape[axes[n]] and
\* result[ix] = a[jx] where jx[axes[n]] = ix[n]
Transpose(a, axes) ==
    LET nsh == [n \in 1..3 |-> a.shape[axes[n] + 1]]
        Src(ix) == [m \in 1..3 |-> ix[CHOOSE n \in 1..3 : axes[n] = m - 1]]
    IN [shape |-> nsh, data |-> [ix \in Indices(nsh) |-> a.data[Src(ix)]]]

reshape_as_image(a) == Transpose(a, <<1, 2, 0>>)

\* the axes reversed instead of rotated
reshape_as_raster_reversed(a) == Transpose(a, <<2, 1, 0>>)

reshape_as_raster(a) == Transpose(a, <<2, 0, 1>>)

\* a[:, :, lo:hi] of numpy, for 0 <= lo, hi
SliceBands(a, lo, hi) ==
    LET B == a.shape[3]
        l == Min(lo, B)
        h == Max(Min(hi, B), l)
        nsh == <<a.shape[1], a.shape[2], h - l>>
    IN [shape |-> nsh,
        data |-> [ix \in Indices(nsh) |-> a.data[<<ix[1], ix[2], ix[3] + l>>]]]

----------------------------------------------------------------------------
(* Pixel values.  A value num / sqrt(den2) is the pair [num, den2]; the     *)
(* values read from a raster have den2 = 1, and [0, 0] is 0/0 (nan).        *)
Raw(v) == [num |-> v, den2 |-> 1]
\* the band vectors a pixel is given: all zero (norm 0), first band set (norm 1),
\* every band set (norm sqrt(B))
PixelVectors(B) ==
    {[k \in 1..B |-> Raw(0)],
     [k \in 1..B |-> Raw(1)],
     [k \in 1..B |-> IF k = 1 THEN Raw(1) ELSE Raw(0)]}

RECURSIVE SumSq(_)
SumSq(vec) == IF vec = <<>> THEN 0
              ELSE vec[1].num * vec[1].num + SumSq(Tail(vec))

\* img / np.sqrt(np.sum(img**2, 0)) on one band vector
BrigthnessNormalization(vec) ==
    LET s == SumSq(vec)
    IN [k \in 1..Len(vec) |->
          IF s # 0 /\ vec[k].num = 0 THEN Raw(0)
          ELSE [num |-> vec[k].num, den2 |-> s]]

\* np.apply_along_axis(BrigthnessNormalization, 0, a)
ApplyAlongAxis0(a) ==
    LET B == a.shape[1]
        Vec(rr, cc) == [k \in 1..B |-> a.data[<<k - 1, rr, cc>>]]
    IN [shape |-> a.shape,
        data |-> [ix \in Indices(a.shape) |->
                    BrigthnessNormalization(Vec(ix[2], ix[3]))[ix[1] + 1]]]

----------------------------------------------------------------------------
(* pysptools.noise, by the shape and provenance of what it returns.  A      *)
(* transformed value records its component index, the components that were  *)
(* smoothed on the way to it, and whether it went through the inverse.      *)
Comp(k) == [comp |-> k, smoothed |-> {}, inverted |-> FALSE]

\* ns.MNF().apply(img): a cube of the shape of img
mnf_apply(a) ==
    [shape |-> a.shape, data |-> [ix \in Indices(a.shape) |-> Comp(ix[3])]]

\* mnf.get_components(n): transform[:, :, :n]
get_components(t, n) == SliceBands(t, 0, n)

\* ns.SavitzkyGolay().denoise_bands(cube, window, degree): every band smoothed
denoise_bands(t, window, degree) ==
    [shape |-> t.shape,
     data |-> [ix \in Indices(t.shape) |->
                 [t.data[ix] EXCEPT !.smoothed = @ \cup {t.data[ix].comp}]]]

\* t[:, :, lo:hi] = src
AssignBands(t, lo, hi, src) ==
    LET B == t.shape[3]
        l == Min(lo, B)
        h == Max(Min(hi, B), l)
    IN [shape |-> t.shape,
        data |-> [ix \in Indices(t.shape) |->
                    IF l <= ix[3] /\ ix[3] < h
                    THEN src.data[<<ix[1], ix[2], ix[3] - l>>]
                    ELSE t.data[ix]]]

\* mnf.inverse_transform(t): every band of the result mixes all components
inverse_transform(t) ==
    [shape |-> t.shape,
     data |-> [ix \in Indices(t.shape) |->
                 [comp |-> ix[3],
                  smoothed |-> UNION {t.data[<<ix[1], ix[2], k>>].smoothed :
                                         k \in 0..(t.shape[3] - 1)},
                  inverted |-> TRUE]]]

MNF(a, n) == get_components(mnf_apply(a), n)

MNF_reduce_component_2_noise_and_invert(a, n) ==
    LET tdata == mnf_apply(a)
        t2 == AssignBands(tdata, 1, 2,
                          denoise_bands(SliceBands(tdata, 1, 2), SGWindow, SGDegree))
        rr == inverse_transform(t2)
    IN SliceBands(rr, 1, n + 1)

----------------------------------------------------------------------------
(* The script *)
Configurations ==
    [format : Formats, components : 1..MaxComponents, method : 0..MaxMethod,
     preprop : BOOLEAN, variance : BOOLEAN]

RasterShapes == {<<1, 1>>}
NoHandle == [file |-> <<>>, count |-> 0, shape |-> <<0, 0>>]

RECURSIVE basename(_)
basename(p) ==
    IF \E k \in 1..Len(p) : p[k] = "/"
    THEN basename(Tail(p))
    ELSE p

\* line 155
ComponentsGlobal(a) == a.method

\* the second method test written as a plain else
RunMode_elseMethod2(a) ==
    IF a.variance = TRUE THEN "variance"
    ELSE IF a.method = 1 THEN "m1"
    ELSE "m2"

\* the method tested before the variance flag
RunMode_methodFirst(a) ==
    IF a.method = 1 THEN "m1"
    ELSE IF a.variance = TRUE THEN "variance"
    ELSE IF a.method = 2 THEN "m2"
    ELSE "usage"

\* the branch of lines 162, 176, 192, 207 taken for the configuration
RunMode(a) ==
    IF a.variance = TRUE THEN "variance"
    ELSE IF a.method = 1 THEN "m1"
    ELSE IF a.method = 2 THEN "m2"
    ELSE "usage"

\* a loop that steps over every other file
LoopAdvance_skip(k) == k + 2

\* for i in range(len(imageList))
LoopAdvance(k) == k + 1

\* lines 183-186: img once the two assignments have run
PreparedImage(a, raw, oldImg) ==
    LET afterIf == IF a.preprop = TRUE
                   THEN reshape_as_image(ApplyAlongAxis0(raw))
                   ELSE oldImg
        afterAssign == reshape_as_image(raw)
    IN afterAssign

\* line 131
OutputPath(nm) ==
    <<"M", "N", "F", "/">> \o DropLast(nm, SuffixLen) \o <<"_", "M", "N", "F", ".", "t", "i", "f">>

Event(op, k) == [op |-> op, file |-> k]

Directories == {d \in SUBSET FileNames : Cardinality(d) <= MaxFiles}

\* the state once lines 152-160 have run
Init ==
    /\ args \in Configurations
    /\ n_components = ComponentsGlobal(args)
    /\ imageList \in UNION {glob(d, args.format) : d \in Directories}
    /\ i = 0
    /\ name = <<>>
    /\ r = NoHandle
    /\ r2 = NoArr /\ bn = NoArr /\ img = NoArr /\ mnf = NoArr
    /\ out = <<>>
    /\ fs = <<>>
    /\ openHandles = {}
    /\ log = <<>>
    /\ pc = "start"
    /\ arr = NoArr /\ im = NoArr /\ back = NoArr /\ rpc = "off"

\* lines 162, 176, 192, 207-215
Dispatch ==
    /\ pc = "start"
    /\ IF RunMode(args) = "usage"
       THEN /\ log' = Append(log, Event("usage", 0))
            /\ pc' = "done"
       ELSE /\ log' = log
            /\ pc' = "loop"
    /\ UNCHANGED <<args, n_components, imageList, i, name, r, r2, bn, img, mnf, out, fs,
                   openHandles>>
    /\ UNCHANGED rvars

\* lines 165-166, 179-180, 195-196.  The script calls close() on no input dataset;
\* what the interpreter does with a dataset that r no longer names is not the script's.
OpenInput ==
    /\ pc = "loop"
    /\ i < Len(imageList)
    /\ name' = basename(imageList[i + 1])
    /\ \E B \in 1..MaxBands, sh \in RasterShapes :
          r' = [file |-> imageList[i + 1], count |-> B, shape |-> sh]
    /\ openHandles' = openHandles \cup {imageList[i + 1]}
    /\ log' = Append(log, Event("open", i))
    /\ pc' = "opened"
    /\ UNCHANGED <<args, n_components, imageList, i, r2, bn, img, mnf, out, fs>>
    /\ UNCHANGED rvars

\* range exhausted: the script ends
LoopExit ==
    /\ pc = "loop"
    /\ i >= Len(imageList)
    /\ pc' = "done"
    /\ UNCHANGED <<args, n_components, imageList, i, name, r, r2, bn, img, mnf, out, fs,
                   openHandles, log>>
    /\ UNCHANGED rvars

\* lines 167-172, 181-186, 197-202
ReadInput ==
    /\ pc = "opened"
    /\ \E px \in [Indices(<<1, r.shape[1], r.shape[2]>>) -> PixelVectors(r.count)] :
          r2' = [shape |-> <<r.count, r.shape[1], r.shape[2]>>,
                 data |-> [ix \in Indices(<<r.count, r.shape[1], r.shape[2]>>) |->
                             px[<<0, ix[2], ix[3]>>][ix[1] + 1]]]
    /\ bn' = IF args.preprop = TRUE THEN ApplyAlongAxis0(r2') ELSE bn
    /\ img' = PreparedImage(args, r2', img)
    /\ log' = Append(log, Event("read", i))
    /\ pc' = "prepared"
    /\ UNCHANGED <<args, n_components, imageList, i, name, r, mnf, out, fs, openHandles>>
    /\ UNCHANGED rvars

\* lines 173-174
Decompose ==
    /\ pc = "prepared"
    /\ RunMode(args) = "variance"
    /\ log' = Append(log, Event("decompose", i))
    /\ i' = LoopAdvance(i)
    /\ pc' = "loop"
    /\ UNCHANGED <<args, n_components, imageList, name, r, r2, bn, img, mnf, out, fs,
                   openHandles>>
    /\ UNCHANGED rvars

\* lines 188-189, 204-205
Transform ==
    /\ pc = "prepared"
    /\ RunMode(args) \in {"m1", "m2"}
    /\ mnf' = IF RunMode(args) = "m1"
              THEN MNF(img, n_components)
              ELSE MNF_reduce_component_2_noise_and_invert(img, n_components)
    /\ log' = Append(log, Event("transform", i))
    /\ pc' = "transformed"
    /\ UNCHANGED <<args, n_components, imageList, i, name, r, r2, bn, img, out, fs,
                   openHandles>>
    /\ UNCHANGED rvars

\* saveMNF, lines 130-135: the output is created (or truncated) and left open
SaveOpen ==
    /\ pc = "transformed"
    /\ out' = OutputPath(name)
    /\ fs' = (OutputPath(name) :>
                [count |-> n_components, bands |-> 0, state |-> "open"]) @@ fs
    /\ log' = Append(log, Event("out_open", i))
    /\ pc' = "outopen"
    /\ UNCHANGED <<args, n_components, imageList, i, name, r, r2, bn, img, mnf,
                   openHandles>>
    /\ UNCHANGED rvars

\* saveMNF, line 136: write accepts only an array of the declared shape
SaveWrite ==
    /\ pc = "outopen"
    /\ LET img2 == reshape_as_raster(mnf)
       IN /\ img2.shape = <<fs[out].count, r.shape[1], r.shape[2]>>
          /\ fs' = [fs EXCEPT ![out].bands = img2.shape[1], ![out].state = "written"]
    /\ log' = Append(log, Event("out_write", i))
    /\ pc' = "outwritten"
    /\ UNCHANGED <<args, n_components, imageList, i, name, r, r2, bn, img, mnf, out,
                   openHandles>>
    /\ UNCHANGED rvars

\* saveMNF, line 137, and the return to the loop
SaveClose ==
    /\ pc = "outwritten"
    /\ fs' = [fs EXCEPT ![out].state = "closed"]
    /\ log' = Append(log, Event("out_close", i))
    /\ i' = LoopAdvance(i)
    /\ pc' = "loop"
    /\ UNCHANGED <<args, n_components, imageList, name, r, r2, bn, img, mnf, out,
                   openHandles>>
    /\ UNCHANGED rvars

\* a library call raises; nothing catches it and the script stops where it is
Raise ==
    /\ \/ pc = "loop" /\ i < Len(imageList)
       \/ pc \in {"opened", "prepared", "transformed", "outopen"}
    /\ pc' = "aborted"
    /\ UNCHANGED <<args, n_components, imageList, i, name, r, r2, bn, img, mnf, out, fs,
                   openHandles, log>>
    /\ UNCHANGED rvars

Next ==
    \/ Dispatch
    \/ OpenInput
    \/ LoopExit
    \/ ReadInput
    \/ Decompose
    \/ Transform
    \/ SaveOpen
    \/ SaveWrite
    \/ SaveClose
    \/ Raise

Spec == Init /\ [][Next]_vars

\* the interpreter runs the script to its end: an enabled step is taken
FairSpec == Spec /\ WF_vars(Next)

----------------------------------------------------------------------------
(* reshape_as_image then reshape_as_raster on arrays of every small shape *)
ReshapeShapes == {<<b, rr, cc>> : b \in 1..RBands, rr \in 1..RRows, cc \in 1..RCols}

\* position of an index in C order
Linear(sh, ix) == (ix[1] * sh[2] + ix[2]) * sh[3] + ix[3]

\* the arrays of shape sh tried: all zero, one cell set, every cell different
ReshapeInputs(sh) ==
    {[shape |-> sh, data |-> [ix \in Indices(sh) |-> Raw(0)]]}
    \cup {[shape |-> sh, data |-> [ix \in Indices(sh) |-> Raw(Linear(sh, ix))]]}
    \cup {[shape |-> sh, data |-> [ix \in Indices(sh) |-> IF ix = hot THEN Raw(1) ELSE Raw(0)]] :
             hot \in Indices(sh)}

ReshapeInit ==
    /\ args = [format |-> TIF, components |-> 1, method |-> 1,
               preprop |-> FALSE, variance |-> FALSE]
    /\ n_components = 0
    /\ imageList = <<>>
    /\ i = 0
    /\ name = <<>>
    /\ r = NoHandle
    /\ r2 = NoArr /\ bn = NoArr /\ img = NoArr /\ mnf = NoArr
    /\ out = <<>>
    /\ fs = <<>>
    /\ openHandles = {}
    /\ log = <<>>
    /\ pc = "off"
    /\ arr \in UNION {ReshapeInputs(sh) : sh \in ReshapeShapes}
    /\ im = NoArr /\ back = NoArr
    /\ rpc = "raster_in"

ToImage ==
    /\ rpc = "raster_in"
    /\ im' = reshape_as_image(arr)
    /\ rpc' = "image"
    /\ UNCHANGED <<arr, back>>
    /\ UNCHANGED pvars

ToRaster ==
    /\ rpc = "image"
    /\ back' = reshape_as_raster(im)
    /\ rpc' = "raster_out"
    /\ UNCHANGED <<arr, im>>
    /\ UNCHANGED pvars

ReshapeNext ==
    \/ ToImage
    \/ ToRaster

ReshapeSpec == ReshapeInit /\ [][ReshapeNext]_vars

----------------------------------------------------------------------------
(* Properties *)
Ops(k) == {log[n].op : n \in {m \in 1..Len(log) : log[m].file = k}}
AllOps == {log[n].op : n \in 1..Len(log)}
At(op, k) == {n \in 1..Len(log) : log[n] = Event(op, k)}
TransformMode == RunMode(args) \in {"m1", "m2"}
FileOps == {"open", "read", "decompose", "transform", "out_open", "out_write", "out_close"}

\* the stem of a discovered name: the name without "." and the configured format
StemOf(nm) == DropLast(nm, Len(args.format) + 1)

\* C1: in transform mode with component_count <= band_count the output raster is
\* declared with component_count bands and, once written, holds component_count bands
C1_OutputHasComponentCountBands ==
    (pc \in {"outopen", "outwritten"} /\ args.components <= r.count)
        => /\ fs[out].count = args.components
           /\ pc = "outwritten" => fs[out].bands = args.components

\* C2: the array given to the transform or decomposition is the brightness-normalised
\* image when preprocess_flag is set and the raw image otherwise (stated for rasters
\* without a zero-norm pixel, where the quotient is defined)
NonZeroNorm(a) ==
    \A ix \in Indices(a.shape) :
        \E k \in 0..(a.shape[1] - 1) : a.data[<<k, ix[2], ix[3]>>].num # 0

C2_NormalizedImageIsUsed ==
    (pc \in {"prepared", "transformed"} /\ NonZeroNorm(r2))
        => img = reshape_as_image(IF args.preprop THEN ApplyAlongAxis0(r2) ELSE r2)

\* C3 as stated: with a method other than 1 and 2, whatever the other options, the
\* usage message is printed and no file is opened, read, decomposed or written
C3_InvalidMethodProcessesNothing ==
    (args.method \notin {1, 2} /\ Len(imageList) >= 1)
        => /\ pc = "done" => "usage" \in AllOps
           /\ AllOps \cap FileOps = {}
           /\ openHandles = {} /\ fs = <<>>

\* C3 amended: with variance_flag false and a method other than 1 and 2, the usage
\* message is printed and no file is opened, read, decomposed or written
C3_InvalidMethodWithoutVarianceProcessesNothing ==
    (args.variance = FALSE /\ args.method \notin {1, 2} /\ pc # "start")
        => /\ log = <<Event("usage", 0)>>
           /\ pc = "done"
           /\ openHandles = {} /\ fs = <<>>
           /\ r = NoHandle /\ r2 = NoArr /\ img = NoArr /\ mnf = NoArr

C3_Witness ==
    /\ pc = "done"
    /\ args.variance = FALSE /\ args.method \notin {1, 2}
    /\ Len(imageList) >= 1
    /\ "usage" \in AllOps

\* C4: with variance_flag set no transform is run and no file under MNF/ is created
\* or written; a run never both reports variance and transforms
C4_VarianceModeWritesNothing ==
    /\ args.variance = TRUE
          => /\ AllOps \cap {"transform", "out_open", "out_write", "out_close"} = {}
             /\ fs = <<>> /\ out = <<>> /\ mnf = NoArr
    /\ ~ ("decompose" \in AllOps /\ AllOps \cap {"transform", "out_open"} # {})

C4_Witness ==
    /\ pc = "done"
    /\ args.variance = TRUE /\ args.method = 1
    /\ Len(imageList) >= 2
    /\ \A k \in 0..(Len(imageList) - 1) : "decompose" \in Ops(k)

\* C5: the output path of <stem>.<ext> is MNF/<stem>_MNF.<ext>, and the files of a
\* run get different output paths
C5_OutputPathKeepsStemAndExtension ==
    /\ pc \in {"outopen", "outwritten"}
          => out = <<"M", "N", "F", "/">> \o StemOf(name)
                      \o <<"_", "M", "N", "F", ".">> \o args.format
    /\ (pc = "done" /\ TransformMode) => Cardinality(DOMAIN fs) = Len(imageList)

\* C6: at most one input handle is open, none is open when the next file is due,
\* and none is open when the run has ended
C6_InputHandleClosedPerFile ==
    /\ Cardinality(openHandles) <= 1
    /\ pc \in {"loop", "done", "aborted"} => openHandles = {}

\* C7: outside saveMNF, also after a step has raised, every file under MNF/ is a
\* completely written and closed raster
C7_NoPartialOutput ==
    pc \notin {"outopen", "outwritten"}
        => \A p \in DOMAIN fs : fs[p].state = "closed" /\ fs[p].bands = fs[p].count

\* C8: the intermediate array has shape (rows, cols, bands) with element (r, c, b)
\* equal to the original (b, r, c), and the round trip gives back the original
C8_ReshapeRoundTrip ==
    /\ rpc \in {"image", "raster_out"}
          => /\ im.shape = <<arr.shape[2], arr.shape[3], arr.shape[1]>>
             /\ DOMAIN im.data = Indices(im.shape)
             /\ \A ix \in Indices(arr.shape) :
                   im.data[<<ix[2], ix[3], ix[1]>>] = arr.data[ix]
    /\ rpc = "raster_out"
          => /\ back.shape = arr.shape
             /\ DOMAIN back.data = DOMAIN arr.data
             /\ \A ix \in Indices(arr.shape) : back.data[ix] = arr.data[ix]

C8_Witness ==
    /\ rpc = "raster_out"
    /\ arr.shape = <<2, 1, 2>>
    /\ \A ix, jx \in Indices(arr.shape) : ix # jx => arr.data[ix] # arr.data[jx]

\* C9: method 2 returns the bands 1 .. component_count of the inverse of the cube
\* in which only band 1 was smoothed
C9_Method2ReturnsComponentCountBands ==
    (pc = "transformed" /\ RunMode(args) = "m2" /\ args.components + 1 <= r.count)
        => /\ mnf.shape = <<img.shape[1], img.shape[2], args.components>>
           /\ \A ix \in Indices(mnf.shape) :
                 mnf.data[ix] = [comp |-> ix[3] + 1, smoothed |-> {1}, inverted |-> TRUE]

\* the order of the steps of one file in transform mode
StepOrder == <<"open", "read", "transform", "out_open", "out_write", "out_close">>

C10_OneFileAtATime ==
    \* no step of a file is done twice
    /\ \A k \in 0..(Len(imageList) - 1) : \A op \in FileOps : Cardinality(At(op, k)) <= 1
    \* the files are taken in discovery order, none is returned to
    /\ \A n \in 1..(Len(log) - 1) : log[n].file <= log[n + 1].file
    /\ TransformMode
          => \* the steps of a file come in the order load, transform, write, close
             /\ \A k \in 0..(Len(imageList) - 1) : \A a, b \in 1..Len(StepOrder) :
                   (a < b /\ StepOrder[b] \in Ops(k))
                      => \E m \in At(StepOrder[a], k) : \A n \in At(StepOrder[b], k) : m < n
             \* when a file is opened the one before it is written and closed
             /\ \A k \in 1..(Len(imageList) - 1) :
                   "open" \in Ops(k) => "out_close" \in Ops(k - 1)
             \* at the end every discovered file has its one written and closed output
             /\ pc = "done"
                   => \A k \in 0..(Len(imageList) - 1) :
                         /\ Cardinality(At("out_write", k)) = 1
                         /\ Cardinality(At("out_close", k)) = 1
                         /\ fs[OutputPath(basename(imageList[k + 1]))].state = "closed"

\* C10: in transform mode the files are processed one at a time in discovery order,
\* each loaded, transformed and written at most once and closed before the next is
\* opened; the run ends, and when no step raised, with one output written per file
C10_SequentialSinglePass ==
    /\ []C10_OneFileAtATime
    /\ <>(pc \in {"done", "aborted"})

C10_Witness ==
    /\ pc = "done"
    /\ TransformMode
    /\ Len(imageList) >= 2
    /\ \A k \in 0..(Len(imageList) - 1) : "out_close" \in Ops(k)

====
